---- MODULE Spec2Model ----
(***************************************************************************)
(* Model of lhco_converter.py: parse_lhco -> filter_records -> writer,     *)
(* driven by main.  Text is modelled at character level: a line is a       *)
(* sequence of one-character strings, a token is a non-empty sequence of   *)
(* non-whitespace characters.  A dict is a sequence of <<key, value>>      *)
(* pairs in insertion order.                                               *)
(***************************************************************************)
EXTENDS Integers, Sequences, FiniteSets, TLC

\* ---------------------------------------------------------------- bounds
MaxLines == 3
MaxRecs == 2
MaxCols == 2

\* ------------------------------------------------------- python values
\* Python's None; no token and no column list equals it.
None == <<"<None>">>

\* characters str.split() treats as separators (those the inputs use)
Whitespace == {" ", "\t", "\n"}

\* characters for which str.isdigit() is true (ASCII part)
DigitChars == {"0", "1", "2", "3", "4", "5", "6", "7", "8", "9"}

RECURSIVE SplitFrom(_, _, _, _)
SplitFrom(raw, k, cur, acc) ==
    IF k > Len(raw)
    THEN IF cur = <<>> THEN acc ELSE Append(acc, cur)
    ELSE IF raw[k] \in Whitespace
         THEN SplitFrom(raw, k + 1, <<>>,
                        IF cur = <<>> THEN acc ELSE Append(acc, cur))
         ELSE SplitFrom(raw, k + 1, Append(cur, raw[k]), acc)

\* raw.split(' '): every single space separates, empty tokens are kept
RECURSIVE SplitSpaceFrom(_, _, _, _)
SplitSpaceFrom(raw, k, cur, acc) ==
    IF k > Len(raw) THEN Append(acc, cur)
    ELSE IF raw[k] = " "
         THEN SplitSpaceFrom(raw, k + 1, <<>>, Append(acc, cur))
         ELSE SplitSpaceFrom(raw, k + 1, Append(cur, raw[k]), acc)

split_SingleSpace(raw) == SplitSpaceFrom(raw, 1, <<>>, <<>>)

\* raw.split()
split(raw) == SplitFrom(raw, 1, <<>>, <<>>)

\* a digit test that accepts any non-empty token
isdigit_anything(tok) == Len(tok) > 0

\* tokens[0].isdigit()
isdigit(tok) == Len(tok) > 0 /\ \A k \in 1..Len(tok) : tok[k] \in DigitChars

\* ------------------------------------------------------------- dicts
KeyError == <<"<KeyError>">>

DictKeys(d) == [k \in 1..Len(d) |-> d[k][1]]

DictHas(d, key) == \E k \in 1..Len(d) : d[k][1] = key

\* d[key]; every read in the source is of a key that is present
DictGet(d, key) ==
    IF DictHas(d, key)
    THEN d[CHOOSE k \in 1..Len(d) : d[k][1] = key][2]
    ELSE KeyError

\* d[key] = val : an existing key keeps its position
DictSet(d, key, val) ==
    IF DictHas(d, key)
    THEN [k \in 1..Len(d) |-> IF d[k][1] = key THEN <<key, val>> ELSE d[k]]
    ELSE Append(d, <<key, val>>)

\* ------------------------------------------------------------ parse_lhco
\* header test without the length check
IsHeader_DigitFirst(tokens) == isdigit(tokens[1])

IsHeader(tokens) == Len(tokens) = 3 /\ isdigit(tokens[1])

\* object-line test with a strict comparison
IsObjectLine_Over9(tokens) == Len(tokens) > 9

IsObjectLine(tokens) == Len(tokens) >= 9

\* a record that gets its 'event' key only when a header was seen
MkRecord_NoNullEvent(event, tokens) ==
    (IF event = None THEN <<>> ELSE << <<"event", event>> >>) \o
    << <<"idx", tokens[1]>>, <<"typ", tokens[2]>>, <<"eta", tokens[3]>>,
       <<"phi", tokens[4]>>, <<"pt", tokens[5]>>, <<"jmas", tokens[6]>>,
       <<"ntrk", tokens[7]>>, <<"btag", tokens[8]>>, <<"hadem", tokens[9]>> >>

MkRecord(event, tokens) ==
    << <<"event", event>>,
       <<"idx", tokens[1]>>, <<"typ", tokens[2]>>, <<"eta", tokens[3]>>,
       <<"phi", tokens[4]>>, <<"pt", tokens[5]>>, <<"jmas", tokens[6]>>,
       <<"ntrk", tokens[7]>>, <<"btag", tokens[8]>>, <<"hadem", tokens[9]>> >>

\* ------------------------------------------------------------ filter_records
\* numeric comparison of two tokens: leading zeros do not count
RECURSIVE StripZeros(_)
StripZeros(tok) ==
    IF Len(tok) > 1 /\ tok[1] = "0" THEN StripZeros(Tail(tok)) ELSE tok

TypDiffers_Numeric(typ, particle) == StripZeros(typ) # StripZeros(particle)

\* rec['typ'] != str(particle)
TypDiffers(typ, particle) == typ # particle

RECURSIVE ProjectFrom(_, _, _, _)
ProjectFrom(rec, columns, k, filtered) ==
    IF k > Len(columns) THEN filtered
    ELSE ProjectFrom(rec, columns, k + 1,
                     IF DictHas(rec, columns[k])
                     THEN DictSet(filtered, columns[k], DictGet(rec, columns[k]))
                     ELSE filtered)

\* the reduced record in the order of the record's own keys
ProjectRecord_RecordOrder(rec, columns) ==
    << <<"event", DictGet(rec, "event")>> >> \o
    SelectSeq(rec, LAMBDA kv : kv[1] # "event"
                               /\ \E k \in 1..Len(columns) : columns[k] = kv[1])

ProjectRecord(rec, columns) ==
    ProjectFrom(rec, columns, 1, << <<"event", DictGet(rec, "event")>> >>)

\* `if columns:` - None and the empty list are both false
Truthy(columns) == columns # None /\ columns # <<>>

RECURSIVE FilterFrom(_, _, _, _, _)
FilterFrom(rs, p, columns, k, out) ==
    IF k > Len(rs) THEN out
    ELSE IF p # None /\ TypDiffers(DictGet(rs[k], "typ"), p)
         THEN FilterFrom(rs, p, columns, k + 1, out)
         ELSE FilterFrom(rs, p, columns, k + 1,
                         Append(out, IF Truthy(columns)
                                     THEN ProjectRecord(rs[k], columns)
                                     ELSE rs[k]))

filter_records(rs, p, columns) == FilterFrom(rs, p, columns, 1, <<>>)

\* ------------------------------------------------------------ writers
MsgNoRecords == "No records to write."
MsgCsvWritten == "CSV written to <out_path>"
MsgDocxMissing == "Error: python-docx is not installed. Cannot write DOCX."
MsgDocxWritten == "DOCX written to <out_path>"
MsgReminder == "Reminder: install python-docx via 'pip install python-docx' to enable DOCX output."
MsgNotFound == "Input file <infile> not found."
MsgNameError == "NameError: name 'sys' is not defined"

\* csv.DictWriter writes None as the empty field
CsvField(v) == IF v = None THEN <<>> ELSE v

\* str(rec[col])
Str(v) == IF v = None THEN <<"N", "o", "n", "e">> ELSE v

\* rows DictWriter.writerows emits: a missing key gives the empty field, a
\* key outside fieldnames raises ValueError and ends the writing
HasExtraKey(rec, cols) ==
    \E k \in 1..Len(rec) : \A c \in 1..Len(cols) : cols[c] # rec[k][1]

CsvRow(rec, cols) ==
    [c \in 1..Len(cols) |->
        IF DictHas(rec, cols[c]) THEN CsvField(DictGet(rec, cols[c])) ELSE <<>>]

RECURSIVE CsvRowsFrom(_, _, _, _)
CsvRowsFrom(rs, cols, k, rows) ==
    IF k > Len(rs) THEN [rows |-> rows, raised |-> "none"]
    ELSE IF HasExtraKey(rs[k], cols) THEN [rows |-> rows, raised |-> "ValueError"]
         ELSE CsvRowsFrom(rs, cols, k + 1, Append(rows, CsvRow(rs[k], cols)))

\* write_csv opening the output before looking at the records
write_csv_OpenFirst(rs, out, so) ==
    IF rs = <<>>
    THEN [outFile |-> [kind |-> "csv", header |-> <<>>, rows |-> <<>>],
          stdout |-> Append(so, MsgNoRecords), raised |-> "none"]
    ELSE LET cols == DictKeys(rs[1])
             w == CsvRowsFrom(rs, cols, 1, <<>>)
         IN [outFile |-> [kind |-> "csv", header |-> cols, rows |-> w.rows],
             stdout |-> IF w.raised = "none" THEN Append(so, MsgCsvWritten) ELSE so,
             raised |-> w.raised]

write_csv(rs, out, so) ==
    IF rs = <<>>
    THEN [outFile |-> out, stdout |-> Append(so, MsgNoRecords), raised |-> "none"]
    ELSE LET cols == DictKeys(rs[1])
             w == CsvRowsFrom(rs, cols, 1, <<>>)
         IN [outFile |-> [kind |-> "csv", header |-> cols, rows |-> w.rows],
             stdout |-> IF w.raised = "none" THEN Append(so, MsgCsvWritten) ELSE so,
             raised |-> w.raised]

DocxRow(rec, cols) == [c \in 1..Len(cols) |-> Str(DictGet(rec, cols[c]))]

\* rec[col] of a record that lacks col raises KeyError before doc.save
DocxKeyError(rs, cols) ==
    \E k \in 1..Len(rs) : \E c \in 1..Len(cols) : ~DictHas(rs[k], cols[c])

DocxWrite(rs, out, so) ==
    LET cols == DictKeys(rs[1])
    IN IF DocxKeyError(rs, cols)
       THEN [outFile |-> out, stdout |-> so, raised |-> "KeyError"]
       ELSE [outFile |-> [kind |-> "docx", header |-> cols,
                          rows |-> [k \in 1..Len(rs) |-> DocxRow(rs[k], cols)]],
             stdout |-> Append(so, MsgDocxWritten), raised |-> "none"]

\* write_docx testing for the empty sequence before the capability
write_docx_EmptyFirst(rs, out, so, available) ==
    IF rs = <<>>
    THEN [outFile |-> out, stdout |-> Append(so, MsgNoRecords), raised |-> "none"]
    ELSE IF ~available
         THEN [outFile |-> out, stdout |-> Append(so, MsgDocxMissing), raised |-> "none"]
         ELSE DocxWrite(rs, out, so)

write_docx(rs, out, so, available) ==
    IF ~available
    THEN [outFile |-> out, stdout |-> Append(so, MsgDocxMissing), raised |-> "none"]
    ELSE IF rs = <<>>
         THEN [outFile |-> out, stdout |-> Append(so, MsgNoRecords), raised |-> "none"]
         ELSE DocxWrite(rs, out, so)

\* ------------------------------------------------------------ inputs
C4Line1 == <<"0", " ", " ", " ", "7", "7", " ", " ", " ", "0", "\n">>
C4Line2 == <<"0", " ", " ", " ", "2", " ", " ", " ", "1", ".", "5", " ", " ", " ", "0", ".", "3", " ", " ", " ", "4", "5", ".", "2", " ", " ", " ", "0", " ", " ", " ", "0", " ", " ", " ", "0", " ", " ", " ", "0", " ", " ", " ", "e", "x", "t", "r", "a", "\n">>
C4Line3 == <<"1", " ", " ", " ", "6", " ", " ", " ", "0", " ", " ", " ", "0", " ", " ", " ", "0", " ", " ", " ", "0", " ", " ", " ", "0", " ", " ", " ", "0", " ", " ", " ", "0", "\n">>
Header5 == <<"1", "2", "\t", "5", " ", "0", "\n">>
NonHeader == <<"a", " ", "9", " ", "0", "\n">>
ShortLine == <<"1", " ", "2", " ", "0", " ", "0", " ", "0", " ", "0", " ", "0", " ", "0", "\n">>
BlankLine == <<" ", "\t", "\n">>
ObjLine02 == <<"3", " ", "0", "2", " ", "0", " ", "0", " ", "9", " ", "0", " ", "0", " ", "0", " ", "0", "\n">>

LineSet == {C4Line1, C4Line2, C4Line3, Header5, NonHeader, ShortLine, BlankLine}

Files == UNION {[1..n -> LineSet] : n \in 0..MaxLines}

\* values of --particle
CliParticles == {None, <<"2">>}

\* particle values a direct caller of filter_records can pass
Particles == {None, <<"2">>, <<"0", "2">>}

\* values of --columns (nargs='+': absent or at least one name)
CliColumns == {None, <<"pt", "eta", "nonexistent">>}

\* column lists a direct caller of filter_records can pass
ColumnNames == {"pt", "eta", "event", "nonexistent"}
ColumnLists == {None} \cup UNION {[1..n -> ColumnNames] : n \in 0..MaxCols}

SampleRecords ==
    {MkRecord(e, split(l)) : e \in {None, <<"7", "7">>},
                             l \in {C4Line2, C4Line3, ObjLine02}}
RecordLists == UNION {[1..n -> SampleRecords] : n \in 0..MaxRecs}

\* the output path before the run: absent, or a file with earlier content
OutAbsent == [kind |-> "absent", header |-> <<>>, rows |-> <<>>]
OutOld == [kind |-> "old", header |-> <<>>, rows |-> <<>>]

\* names bound at module level by the import statements
ImportedNames == {"argparse", "csv", "Path"}

\* ------------------------------------------------------------ state
VARIABLES
    pc,             \* position in main / parse_lhco
    input_exists,   \* infile.exists()
    file,           \* the lines of the input file
    format,         \* args.format
    particle,       \* args.particle
    columns,        \* args.columns
    DOCX_AVAILABLE, \* whether `from docx import Document` succeeded
    lineno,         \* index of the next line the loop of parse_lhco reads
    event_id,       \* parse_lhco: event_id
    records,        \* parse_lhco: records
    recs,           \* main: recs
    outFile,        \* content at the output path
    stdout,         \* messages printed to standard output
    stderr,         \* messages written to the error stream
    exitCode        \* process exit status, -1 while running

vars == <<pc, input_exists, file, format, particle, columns, DOCX_AVAILABLE,
          lineno, event_id, records, recs, outFile, stdout, stderr, exitCode>>

args == <<input_exists, file, format, particle, columns, DOCX_AVAILABLE>>

Init ==
    /\ pc = "main"
    /\ input_exists \in BOOLEAN
    /\ file \in (IF input_exists THEN Files ELSE {<<>>})
    /\ format \in {"csv", "docx"}
    /\ particle \in CliParticles
    /\ columns \in CliColumns
    /\ DOCX_AVAILABLE \in BOOLEAN
    /\ lineno = 1
    /\ event_id = None
    /\ records = <<>>
    /\ recs = <<>>
    /\ outFile = OutAbsent
    /\ stdout = <<>>
    /\ stderr = <<>>
    /\ exitCode = -1

\* main, lines 111-114: the input path does not exist
MainInputNotFound ==
    /\ pc = "main"
    /\ ~input_exists
    /\ stderr' = Append(stderr, IF "sys" \in ImportedNames
                                THEN MsgNotFound ELSE MsgNameError)
    /\ exitCode' = 1
    /\ pc' = "exited"
    /\ UNCHANGED <<args, lineno, event_id, records, recs, outFile, stdout>>

\* main, lines 111-116: the input exists, parse_lhco opens it
MainOpenInput ==
    /\ pc = "main"
    /\ input_exists
    /\ pc' = "parse"
    /\ lineno' = 1
    /\ event_id' = None
    /\ records' = <<>>
    /\ UNCHANGED <<args, recs, outFile, stdout, stderr, exitCode>>

\* parse_lhco: one iteration of `for raw in f`
ParseLine ==
    /\ pc = "parse"
    /\ lineno <= Len(file)
    /\ LET tokens == split(file[lineno])
       IN IF tokens = <<>>
          THEN UNCHANGED <<event_id, records>>
          ELSE IF IsHeader(tokens)
               THEN event_id' = tokens[2] /\ UNCHANGED records
               ELSE IF IsObjectLine(tokens)
                    THEN /\ records' = Append(records, MkRecord(event_id, tokens))
                         /\ UNCHANGED event_id
                    ELSE UNCHANGED <<event_id, records>>
    /\ lineno' = lineno + 1
    /\ UNCHANGED <<pc, args, recs, outFile, stdout, stderr, exitCode>>

\* parse_lhco returns; main binds recs
ParseReturn ==
    /\ pc = "parse"
    /\ lineno > Len(file)
    /\ recs' = records
    /\ pc' = "filter"
    /\ UNCHANGED <<args, lineno, event_id, records, outFile, stdout, stderr, exitCode>>

\* main, line 117
MainFilter ==
    /\ pc = "filter"
    /\ recs' = filter_records(recs, particle, columns)
    /\ pc' = "write"
    /\ UNCHANGED <<args, lineno, event_id, records, outFile, stdout, stderr, exitCode>>

\* main, lines 119-122; an exception raised by the writer ends the process
MainWrite ==
    /\ pc = "write"
    /\ LET w == IF format = "csv"
                THEN write_csv(recs, outFile, stdout)
                ELSE write_docx(recs, outFile, stdout, DOCX_AVAILABLE)
       IN /\ outFile' = w.outFile
          /\ stdout' = w.stdout
          /\ IF w.raised = "none"
             THEN pc' = "reminder" /\ UNCHANGED <<stderr, exitCode>>
             ELSE /\ pc' = "exited"
                  /\ stderr' = Append(stderr, w.raised)
                  /\ exitCode' = 1
    /\ UNCHANGED <<args, lineno, event_id, records, recs>>

\* main, lines 124-125, then the normal end of the process
MainFinish ==
    /\ pc = "reminder"
    /\ stdout' = IF format = "docx" /\ ~DOCX_AVAILABLE
                 THEN Append(stdout, MsgReminder) ELSE stdout
    /\ exitCode' = 0
    /\ pc' = "exited"
    /\ UNCHANGED <<args, lineno, event_id, records, recs, outFile, stderr>>

Next ==
    \/ MainInputNotFound
    \/ MainOpenInput
    \/ ParseLine
    \/ ParseReturn
    \/ MainFilter
    \/ MainWrite
    \/ MainFinish

Spec == Init /\ [][Next]_vars

\* filter_records and the writers called directly, on any record list and
\* any column list
InitLib ==
    /\ pc = "filter"
    /\ input_exists = TRUE
    /\ file = <<>>
    /\ format \in {"csv", "docx"}
    /\ particle \in Particles
    /\ columns \in ColumnLists
    /\ DOCX_AVAILABLE \in BOOLEAN
    /\ lineno = 1
    /\ event_id = None
    /\ records \in RecordLists
    /\ recs = records
    /\ outFile \in {OutAbsent, OutOld}
    /\ stdout = <<>>
    /\ stderr = <<>>
    /\ exitCode = -1

NextLib == MainFilter \/ MainWrite \/ MainFinish

SpecLib == InitLib /\ [][NextLib]_vars

\* ==================================================================
\* Properties.  The definitions below restate the format from the text of
\* the lines, without the tokenizer of the model.
\* ==================================================================
\* positions where a token starts
TokStarts(line) ==
    {k \in 1..Len(line) :
        line[k] \notin Whitespace /\ (k = 1 \/ line[k - 1] \in Whitespace)}

\* number of whitespace-separated tokens of a line
NTok(line) == Cardinality(TokStarts(line))

\* the n-th token of a line, 1 <= n <= NTok(line)
Tok(line, n) ==
    LET S == TokStarts(line)
        s == CHOOSE k \in S : Cardinality({m \in S : m <= k}) = n
        e == CHOOSE k \in s..Len(line) :
                 /\ \A m \in s..k : line[m] \notin Whitespace
                 /\ (k = Len(line) \/ line[k + 1] \in Whitespace)
    IN SubSeq(line, s, e)

AllDigits(tok) == \A k \in 1..Len(tok) : tok[k] \in DigitChars

HeaderLine(line) == NTok(line) = 3 /\ AllDigits(Tok(line, 1))

ObjectLine(line) == NTok(line) >= 9

\* lines the loop of parse_lhco has consumed
Consumed == lineno - 1

\* how many of the first n lines are object lines
ObjectLinesUpTo(n) == Cardinality({k \in 1..n : ObjectLine(file[k])})

\* the line the j-th record was read from: the j-th object line
LineOfRecord(j) ==
    CHOOSE k \in 1..Consumed : ObjectLine(file[k]) /\ ObjectLinesUpTo(k) = j

\* the event id in force at line k: second token of the last header before it
EventAt(k) ==
    LET H == {h \in 1..(k - 1) : HeaderLine(file[h])}
    IN IF H = {} THEN None
       ELSE Tok(file[CHOOSE h \in H : \A g \in H : g <= h], 2)

FieldNames == <<"idx", "typ", "eta", "phi", "pt", "jmas", "ntrk", "btag", "hadem">>

\* inside the loop of parse_lhco, or at its return
Parsing == pc \in {"parse", "filter"}

AfterFilter == pc \in {"write", "reminder", "exited"}

\* C1: every record carries the second token of the most recent header line
\* before the record's line, None when no header precedes it; the tag is
\* fixed by the lines up to the record's own line.
C1_EventTag ==
    Parsing =>
        /\ Len(records) = ObjectLinesUpTo(Consumed)
        /\ \A j \in 1..Len(records) :
              DictGet(records[j], "event") = EventAt(LineOfRecord(j))

C1_Witness ==
    /\ pc = "filter"
    /\ Len(file) = 3
    /\ file[1] = C4Line3
    /\ file[2] = C4Line1
    /\ file[3] = C4Line2
    /\ Len(records) = 2
    /\ DictGet(records[1], "event") = None
    /\ DictGet(records[2], "event") = <<"7", "7">>

\* C2: the records are exactly the lines with 9 or more tokens, in file
\* order, and the nine fields of a record are its line's tokens 1 to 9.
C2_OneRecordPerObjectLine ==
    Parsing =>
        /\ Len(records) = ObjectLinesUpTo(Consumed)
        /\ \A j \in 1..Len(records) :
              /\ DictKeys(records[j]) = <<"event">> \o FieldNames
              /\ LET line == file[LineOfRecord(j)]
                 IN \A f \in 1..9 : records[j][f + 1][2] = Tok(line, f)

C2_Witness ==
    /\ pc = "filter"
    /\ Len(file) = 3
    /\ file[1] = C4Line2
    /\ file[2] = ShortLine
    /\ file[3] = C4Line3
    /\ Len(records) = 2
    /\ DictGet(records[1], "hadem") = <<"0">>
    /\ DictGet(records[2], "typ") = <<"6">>

\* the loop of parse_lhco is about to read a line of 1 to 8 tokens
ReadsShortLine ==
    /\ pc = "parse"
    /\ lineno <= Len(file)
    /\ NTok(file[lineno]) \in 1..8

\* C3 (as amended): a line of 1 to 8 tokens produces no record; it leaves the
\* event id unchanged unless it is a header line, which sets the event id to
\* its second token.
C3_ShortLineSkipped ==
    [][ReadsShortLine =>
          /\ records' = records
          /\ event_id' = IF HeaderLine(file[lineno])
                         THEN Tok(file[lineno], 2) ELSE event_id]_vars

\* C3 (as claimed): every line of 1 to 8 tokens produces no record and
\* leaves the event id unchanged.
C3_Original ==
    [][ReadsShortLine => records' = records /\ event_id' = event_id]_vars

C3_Witness ==
    /\ pc = "parse"
    /\ lineno = 4
    /\ file[1] = C4Line1
    /\ file[2] = NonHeader
    /\ file[3] = ShortLine
    /\ event_id = <<"7", "7">>
    /\ records = <<>>

C4File == <<C4Line1, C4Line2, C4Line3>>

C4Record1 ==
    << <<"event", <<"7", "7">> >>, <<"idx", <<"0">> >>, <<"typ", <<"2">> >>,
       <<"eta", <<"1", ".", "5">> >>, <<"phi", <<"0", ".", "3">> >>,
       <<"pt", <<"4", "5", ".", "2">> >>, <<"jmas", <<"0">> >>,
       <<"ntrk", <<"0">> >>, <<"btag", <<"0">> >>, <<"hadem", <<"0">> >> >>

C4Record2 ==
    << <<"event", <<"7", "7">> >>, <<"idx", <<"1">> >>, <<"typ", <<"6">> >>,
       <<"eta", <<"0">> >>, <<"phi", <<"0">> >>, <<"pt", <<"0">> >>,
       <<"jmas", <<"0">> >>, <<"ntrk", <<"0">> >>, <<"btag", <<"0">> >>,
       <<"hadem", <<"0">> >> >>

ParsedC4 == input_exists /\ file = C4File /\ pc \notin {"main", "parse"}

\* C4 (as amended): the three-line input parses to two records, the second
\* read from the third line, which has 9 tokens.
C4_Scenario == ParsedC4 => records = <<C4Record1, C4Record2>>

\* C4 (as claimed): the three-line input parses to exactly one record.
C4_Original == ParsedC4 => records = <<C4Record1>>

C4_Witness == ParsedC4 /\ pc = "filter" /\ Len(records) = 2

\* C5: a missing input ends the run with the not-found message on the error
\* stream, a non-zero status, and nothing parsed, filtered or written.
C5_InputNotFound ==
    (pc = "exited" /\ ~input_exists) =>
        /\ stderr = <<MsgNotFound>>
        /\ exitCode # 0
        /\ records = <<>>
        /\ recs = <<>>
        /\ outFile.kind \in {"absent", "old"}

DocxUnavailableRun == input_exists /\ format = "docx" /\ ~DOCX_AVAILABLE

\* C6: with --format docx and no docx capability, whatever the records, no
\* output is written, the capability error is printed, then the reminder,
\* and the run ends with status 0.
C6_CapabilityUnavailable ==
    DocxUnavailableRun =>
        /\ outFile.kind \in {"absent", "old"}
        /\ pc = "reminder" => stdout = <<MsgDocxMissing>>
        /\ pc = "exited" => stdout = <<MsgDocxMissing, MsgReminder>> /\ exitCode = 0

C6_Witness ==
    /\ DocxUnavailableRun
    /\ pc = "exited"
    /\ recs = <<>>
    /\ Len(records) = 1
    /\ stdout = <<MsgDocxMissing, MsgReminder>>

\* the records filter_records keeps: those whose typ equals the filter
Kept ==
    SelectSeq(records, LAMBDA r : particle = None \/ r[3][2] = particle)

\* C7: filter_records returns the records whose typ is string-equal to the
\* particle filter, in input order; with no filter it drops nothing.
C7_ParticleFilter ==
    AfterFilter =>
        /\ Len(recs) = Len(Kept)
        /\ particle = None => Len(recs) = Len(records)
        /\ \A j \in 1..Len(recs) :
              /\ \A k \in 1..Len(recs[j]) :
                    recs[j][k][2] = DictGet(Kept[j], recs[j][k][1])
              /\ columns = None => recs[j] = Kept[j]

C7_Witness ==
    /\ pc = "write"
    /\ particle = <<"0", "2">>
    /\ Len(records) = 2
    /\ records[1][3][2] = <<"2">>
    /\ records[2][3][2] = <<"0", "2">>
    /\ recs = <<records[2]>>

\* positions of the requested names that are known fields, first mention only
FirstMentions(cols) ==
    {k \in 1..Len(cols) :
        /\ \E f \in 1..9 : FieldNames[f] = cols[k]
        /\ \A m \in 1..(k - 1) : cols[m] # cols[k]}

\* 'event', then the requested known fields in the order given
ReducedKeys(cols) ==
    LET F == FirstMentions(cols)
    IN [a \in 1..(Cardinality(F) + 1) |->
          IF a = 1 THEN "event"
          ELSE cols[CHOOSE k \in F : Cardinality({m \in F : m <= k}) = a - 1]]

IsReduced(rec, src, cols) ==
    /\ DictKeys(rec) = ReducedKeys(cols)
    /\ \A k \in 1..Len(rec) : rec[k][2] = DictGet(src, rec[k][1])

\* C8 (as amended): for a non-empty column list each retained record becomes
\* 'event' followed by the requested known fields in the order given, with
\* the original values; with no column list or an empty one the full record
\* passes through.
C8_Projection ==
    AfterFilter =>
        /\ Len(recs) = Len(Kept)
        /\ \A j \in 1..Len(recs) :
              IF columns # None /\ columns # <<>>
              THEN IsReduced(recs[j], Kept[j], columns)
              ELSE recs[j] = Kept[j]

\* C8 (as claimed): for every column list given, the empty one included,
\* each retained record becomes the reduced record.
C8_Original ==
    AfterFilter =>
        /\ Len(recs) = Len(Kept)
        /\ \A j \in 1..Len(recs) :
              IF columns # None
              THEN IsReduced(recs[j], Kept[j], columns)
              ELSE recs[j] = Kept[j]

C8_Witness ==
    /\ pc = "write"
    /\ columns = <<"pt", "eta">>
    /\ Len(recs) = 2
    /\ DictKeys(recs[1]) = <<"event", "pt", "eta">>
    /\ recs[1][2][2] = <<"4", "5", ".", "2">>

\* C9: every record that reaches a writer has the keys of the first one, in
\* the same order, so no row lacks or exceeds the header.
C9_Homogeneous ==
    (input_exists /\ AfterFilter) =>
        /\ \A j \in 1..Len(recs) : DictKeys(recs[j]) = DictKeys(recs[1])
        /\ exitCode \in {-1, 0}

C9_Witness ==
    /\ input_exists
    /\ pc = "reminder"
    /\ columns = None
    /\ Len(recs) = 2
    /\ DictGet(recs[1], "event") = None
    /\ DictGet(recs[2], "event") # None
    /\ outFile.kind = "csv"
    /\ Len(outFile.rows) = 2

WritesEmpty == pc = "write" /\ recs = <<>>

\* C10 (as amended): on an empty sequence a writer leaves the output path
\* as it was, prints one message and returns; the message is the no-records
\* report, except that write_docx without the docx capability prints the
\* capability error.
C10_EmptyNoWrite ==
    [][WritesEmpty =>
          /\ outFile' = outFile
          /\ pc' = "reminder"
          /\ stdout' = Append(stdout, IF format = "docx" /\ ~DOCX_AVAILABLE
                                      THEN MsgDocxMissing ELSE MsgNoRecords)]_vars

\* C10 (as claimed): on an empty sequence both writers leave the output path
\* as it was and print the same no-records report.
C10_Original ==
    [][WritesEmpty =>
          /\ outFile' = outFile
          /\ pc' = "reminder"
          /\ stdout' = Append(stdout, MsgNoRecords)]_vars

C10_Witness ==
    /\ pc = "reminder"
    /\ recs = <<>>
    /\ format = "docx"
    /\ DOCX_AVAILABLE
    /\ outFile = OutOld
    /\ stdout = <<MsgNoRecords>>

====
